---- MODULE Spec2Model ----
(***************************************************************************)
(* Ant-Cycle ACO engine for the symmetric TSP (ACOEngine), in its          *)
(* loop-based form (src/model/aco_core.py) and its vectorised form         *)
(* (src/ANT-tsp-_demo-main/model/aco_core.py), and the benchmark sweeps    *)
(* that drive it and the CSV file their results are kept in                *)
(* (model/benchmark.py of both trees).                                     *)
(*                                                                         *)
(* float64 values are idealised as exact rationals <<num, den>> in lowest  *)
(* terms with den > 0, extended with the IEEE special values               *)
(* +inf = <<1,0>>, -inf = <<-1,0>> and nan = <<0,0>>.                      *)
(***************************************************************************)
EXTENDS Integers, Sequences, FiniteSets, TLC

VARIABLES
    engine,  \* engine[e]: the fields of ACOEngine object e
    frame,   \* frame[e]: the run_cycle call in progress on e: its position pc, the
             \* loop index k and the locals tours, lengths (tau_alpha, eta_beta)
    stats,   \* stats[e]: <<r>>, r the record the call that has just returned gave
             \* back; <<>> before the first call and while a call is in progress
    obs,     \* obs[e]: history of e kept for stating the properties: the number
             \* of completed calls, the lengths built in them, tau, the best
             \* length and the generator position at the start of the current or
             \* last call, the tours of the last completed call, the
             \* best_len_cycle and mean_len_cycle of every completed call
    bench,   \* the benchmark sweep in progress (model/benchmark.py): its list of
             \* configurations, the state of the job of each configuration, the
             \* rows collected; engine[c] is then the engine of job c
    disk     \* the CSV file of benchmark results at the path the caller uses: the
             \* file, and for stating the properties the last operation on
             \* it, its argument, what it returned and the file before it

vars == <<engine, frame, stats, obs, bench, disk>>

(***************************************************************************)
(* Bounds of the model.                                                    *)
(***************************************************************************)
\* run_cycle is called at most MaxCycles times on one engine
MaxCycles == 2
\* an explicit ant count m is drawn from 1..MaxAnts
MaxAnts == 3
\* period of the modelled random stream (number of draws a seed fixes)
StreamLen == 4

(***************************************************************************)
(* float64 arithmetic                                                      *)
(***************************************************************************)
Abs(x) == IF x < 0 THEN -x ELSE x

Sign(x) == IF x > 0 THEN 1 ELSE IF x < 0 THEN -1 ELSE 0

RECURSIVE GCD(_, _)
GCD(a, b) == IF b = 0 THEN a ELSE GCD(b, a % b)

\* the float num/den, den >= 0, in canonical form
Float(num, den) ==
    IF den = 0 THEN <<Sign(num), 0>>
    ELSE LET g == GCD(Abs(num), den) IN <<num \div g, den \div g>>

Zero == <<0, 1>>
One == <<1, 1>>
Inf == <<1, 0>>
NaN == <<0, 0>>

IsNaN(a) == a[1] = 0 /\ a[2] = 0
IsInf(a) == a[1] # 0 /\ a[2] = 0
IsFinite(a) == a[2] > 0

\* a + b
FAdd(a, b) ==
    IF IsNaN(a) \/ IsNaN(b) THEN NaN
    ELSE IF IsInf(a) THEN (IF IsInf(b) /\ b # a THEN NaN ELSE a)
    ELSE IF IsInf(b) THEN b
    ELSE LET g == GCD(a[2], b[2])
             l == (a[2] \div g) * b[2]
         IN Float(a[1] * (l \div a[2]) + b[1] * (l \div b[2]), l)

\* a * b
FMul(a, b) ==
    IF IsNaN(a) \/ IsNaN(b) THEN NaN
    ELSE IF a[2] = 0 \/ b[2] = 0 THEN Float(a[1] * b[1], 0)
    ELSE LET g1 == GCD(Abs(a[1]), b[2])
             g2 == GCD(Abs(b[1]), a[2])
         IN <<(a[1] \div g1) * (b[1] \div g2), (a[2] \div g2) * (b[2] \div g1)>>

\* 1 / a  (1/0 = +inf, 1/inf = 0)
FInv(a) == IF a[1] < 0 THEN <<-a[2], -a[1]>> ELSE <<a[2], a[1]>>

\* a / b  (x/0 = +-inf for x # 0, 0/0 = nan, inf/inf = nan)
FDiv(a, b) == FMul(a, FInv(b))

\* a < b; every comparison with nan is false
FLess(a, b) ==
    IF IsNaN(a) \/ IsNaN(b) THEN FALSE
    ELSE IF IsInf(a) THEN a[1] < 0 /\ b # a
    ELSE IF IsInf(b) THEN b[1] > 0
    ELSE a[1] * b[2] < b[1] * a[2]

\* a == b; nan equals nothing
FEq(a, b) == ~IsNaN(a) /\ ~IsNaN(b) /\ a = b

FLeq(a, b) == FLess(a, b) \/ FEq(a, b)

\* a ** k for an integer exponent k >= 0
RECURSIVE FPow(_, _)
FPow(a, k) == IF k = 0 THEN One ELSE IF k = 1 THEN a ELSE FMul(a, FPow(a, k - 1))

\* sqrt of an integer that is a perfect square
Sqrt(x) == Float(CHOOSE r \in 0..x : r * r = x, 1)

\* sum of the first i entries of a sequence of floats
RECURSIVE FSumTo(_, _)
FSumTo(s, i) == IF i = 0 THEN Zero ELSE FAdd(FSumTo(s, i - 1), s[i])

\* sum of a sequence of floats
FSum(s) == FSumTo(s, Len(s))

\* np.cumsum from entry i on, acc being the sum of the entries before it
RECURSIVE CumSumFrom(_, _, _)
CumSumFrom(s, i, acc) ==
    IF i > Len(s) THEN <<>>
    ELSE LET c == FAdd(acc, s[i]) IN <<c>> \o CumSumFrom(s, i + 1, c)

\* np.cumsum
CumSum(s) == CumSumFrom(s, 1, Zero)

\* np.searchsorted(a, v), side='left', on a sorted array (nan sorts last): the
\* 0-based index of the first entry that is not below v, len(a) if there is none
SearchSorted(a, v) ==
    LET below(i) == ~IsNaN(a[i]) /\ FLess(a[i], v)
        stops == {i \in 1..Len(a) : ~below(i)}
    IN IF stops = {} THEN Len(a)
       ELSE (CHOOSE i \in stops : \A j \in stops : i <= j) - 1

(***************************************************************************)
(* Construction of an engine                                               *)
(***************************************************************************)
Cities(n) == 0..(n - 1)

\* _compute_distance_matrix, nested loops: 0 on the diagonal, else sqrt(dx^2 + dy^2)
compute_distance_matrix(coords) ==
    LET n == Len(coords) IN
    [i \in Cities(n) |-> [j \in Cities(n) |->
        IF i # j
        THEN LET dx == coords[j + 1][1] - coords[i + 1][1]
                 dy == coords[j + 1][2] - coords[i + 1][2]
             IN Sqrt(dx * dx + dy * dy)
        ELSE Zero]]

\* _compute_distance_matrix, broadcast: sqrt(sum(diff**2)) for every pair
compute_distance_matrix_vec(coords) ==
    LET n == Len(coords) IN
    [i \in Cities(n) |-> [j \in Cities(n) |->
        LET diff == <<coords[i + 1][1] - coords[j + 1][1],
                      coords[i + 1][2] - coords[j + 1][2]>>
        IN Sqrt(diff[1] * diff[1] + diff[2] * diff[2])]]

\* 1 / dist for every pair i # j, a distance of 0 included
compute_visibility_unguarded(n, dist) ==
    [i \in Cities(n) |-> [j \in Cities(n) |->
        IF i # j THEN FDiv(One, dist[i][j]) ELSE Zero]]

\* _compute_visibility, nested loops
compute_visibility(n, dist) ==
    [i \in Cities(n) |-> [j \in Cities(n) |->
        IF i # j /\ FLess(Zero, dist[i][j]) THEN FDiv(One, dist[i][j]) ELSE Zero]]

\* _compute_visibility, np.divide(1.0, dist, where=dist > 0, out=zeros)
compute_visibility_vec(n, dist) ==
    [i \in Cities(n) |-> [j \in Cities(n) |->
        IF FLess(Zero, dist[i][j]) THEN FDiv(One, dist[i][j]) ELSE Zero]]

\* ANT._compute_visibility: np.divide(1.0, dist, where=dist > 0, out=zeros)
ANT_compute_visibility(n, dist) ==
    [i \in Cities(n) |-> [j \in Cities(n) |->
        IF FLess(Zero, dist[i][j]) THEN FDiv(One, dist[i][j]) ELSE Zero]]

\* _initialize_pheromones: ones, then the diagonal filled with 0
initialize_pheromones(n) ==
    [i \in Cities(n) |-> [j \in Cities(n) |-> IF i = j THEN Zero ELSE One]]

\* a generator that starts where the engines constructed before left off
default_rng_shared(seed) == [seed |-> seed, pos |-> Cardinality(DOMAIN engine)]

\* np.random.default_rng(seed): the seed fixes the stream of draws, read from
\* position 0; the stream repeats with period StreamLen
default_rng(seed) == [seed |-> seed, pos |-> 0]

\* one process-wide generator: the position is the number of draws of all engines
RngPeekGlobal(rng) ==
    rng.seed[((engine[1].rng.pos + engine[2].rng.pos) % StreamLen) + 1]

\* the raw draw the generator is about to produce
RngPeek(rng) == rng.seed[(rng.pos % StreamLen) + 1]

\* a draw that takes two values of the stream
RngAdvance_twice(rng) == [rng EXCEPT !.pos = @ + 2]

\* the generator after one draw
RngAdvance(rng) == [rng EXCEPT !.pos = @ + 1]

\* a choice that always takes the first entry
RngChoiceIndex_first(rng, size) == 0

\* rng.choice(a): a bounded integer index derived from the next raw draw
RngChoiceIndex(rng, size) ==
    LET r == RngPeek(rng) IN (r[1] * size) \div r[2]

\* ACOEngine.__init__; m is <<>> for None, <<k>> for an explicit ant count k
ACOEngine(impl, coords, alpha, beta, p, Q, m, seed) ==
    LET n == Len(coords)
        dist == IF impl = "loop" THEN compute_distance_matrix(coords)
                ELSE compute_distance_matrix_vec(coords)
        eta == IF impl = "loop" THEN compute_visibility(n, dist)
               ELSE compute_visibility_vec(n, dist)
    IN [impl |-> impl,
        coords |-> coords,
        n |-> n,
        alpha |-> alpha,
        beta |-> beta,
        p |-> p,
        Q |-> Q,
        m |-> IF m # <<>> THEN m[1] ELSE n,
        rng |-> default_rng(seed),
        dist |-> dist,
        eta |-> eta,
        tau |-> initialize_pheromones(n),
        best_tour_global |-> <<>>,
        best_len_global |-> Inf]

(***************************************************************************)
(* Tour construction                                                       *)
(***************************************************************************)
\* the elements of a set of cities in increasing order
RECURSIVE Ascending(_)
Ascending(S) ==
    IF S = {} THEN <<>>
    ELSE LET lo == CHOOSE x \in S : \A y \in S : x <= y
         IN <<lo>> \o Ascending(S \ {lo})

Range(s) == {s[i] : i \in 1..Len(s)}

\* one pass of the while loop of _build_probabilistic_tour (loop engine):
\* the city appended to the tour
select_next_loop(self, visited, current_city, random_value) ==
    LET unvisited == Ascending(Cities(self.n) \ visited)
        scores == [idx \in 1..Len(unvisited) |->
                     FMul(FPow(self.tau[current_city][unvisited[idx]], self.alpha),
                          FPow(self.eta[current_city][unvisited[idx]], self.beta))]
        total_score == FSum(scores)
        probabilities ==
            IF FEq(total_score, Zero)
            THEN [idx \in 1..Len(unvisited) |-> FDiv(One, Float(Len(unvisited), 1))]
            ELSE [idx \in 1..Len(unvisited) |-> FDiv(scores[idx], total_score)]
        cumulative_probs == CumSum(probabilities)
        found == SearchSorted(cumulative_probs, random_value)
        selected_idx == IF found >= Len(unvisited) THEN Len(unvisited) - 1 ELSE found
    IN unvisited[selected_idx + 1]

\* _build_probabilistic_tour (loop engine) from a partial tour on: the closed
\* tour and the generator after its draws
RECURSIVE build_tour_loop(_, _, _, _)
build_tour_loop(self, tour, current_city, rng) ==
    IF Len(tour) < self.n /\ Cities(self.n) \ Range(tour) # {}
    THEN LET next_city == select_next_loop(self, Range(tour), current_city, RngPeek(rng))
         IN build_tour_loop(self, Append(tour, next_city), next_city, RngAdvance(rng))
    ELSE [tour |-> Append(tour, tour[1]), rng |-> rng]

\* one pass of the for loop of _build_probabilistic_tour (vectorised engine):
\* scores over all n cities with the visited ones masked to 0
select_next_vec(self, tau_alpha, eta_beta, visited, current_city, rng) ==
    LET n == self.n
        scores == [j \in 1..n |->
                     IF (j - 1) \in visited THEN Zero
                     ELSE FMul(tau_alpha[current_city][j - 1], eta_beta[current_city][j - 1])]
        total_score == FSum(scores)
        probabilities == [j \in 1..n |-> FDiv(scores[j], total_score)]
        cumulative_probs == CumSum(probabilities)
        found == SearchSorted(cumulative_probs, RngPeek(rng))
        unvisited_indices == Ascending(Cities(n) \ visited)
    IN IF FLess(Zero, total_score)
       THEN (IF found >= n THEN n - 1 ELSE found)
       ELSE unvisited_indices[RngChoiceIndex(rng, Len(unvisited_indices)) + 1]

\* _build_probabilistic_tour (vectorised engine) from step `step` on
RECURSIVE build_tour_vec(_, _, _, _, _, _, _)
build_tour_vec(self, tau_alpha, eta_beta, tour, visited, step, rng) ==
    IF step < self.n
    THEN LET next_city == select_next_vec(self, tau_alpha, eta_beta, visited,
                                          tour[Len(tour)], rng)
         IN build_tour_vec(self, tau_alpha, eta_beta, Append(tour, next_city),
                           visited \cup {next_city}, step + 1, RngAdvance(rng))
    ELSE [tour |-> Append(tour, tour[1]), rng |-> rng]

\* a length that leaves out the closing edge back to the start
tour_length_open(dist, tour) ==
    FSum([i \in 1..(Len(tour) - 2) |-> dist[tour[i]][tour[i + 1]]])

\* _tour_length: the sum of dist over consecutive pairs
tour_length(dist, tour) ==
    FSum([i \in 1..(Len(tour) - 1) |-> dist[tour[i]][tour[i + 1]]])

(***************************************************************************)
(* run_cycle                                                               *)
(***************************************************************************)
\* all ants start at city 0
start_city_fixed(k, n) == 0

\* the start city of ant k
start_city(k, n) == k % n

\* deposition placed before evaporation
next_phase_deposit_first(pc) ==
    CASE pc = "construct" -> "deposit"
      [] pc = "deposit" -> "evaporate"
      [] pc = "evaporate" -> "update"

\* the order of the steps of run_cycle: construction of all tours, evaporation,
\* deposit, update of the global best
next_phase(pc) ==
    CASE pc = "construct" -> "evaporate"
      [] pc = "evaporate" -> "deposit"
      [] pc = "deposit" -> "update"

\* the loops over the ants leaving out ant 0: no pass with a single ant
enter_from_one(self, pc) ==
    IF pc \in {"construct", "deposit"} /\ self.m <= 1 THEN next_phase(pc) ELSE pc

\* the step control reaches when `pc` is next in order: a loop over no ants
\* has no pass
enter(self, pc) ==
    IF pc \in {"construct", "deposit"} /\ self.m <= 0 THEN next_phase(pc) ELSE pc

\* the tour of one ant, dispatched on the engine's implementation
build_probabilistic_tour(self, fr, start) ==
    IF self.impl = "loop"
    THEN build_tour_loop(self, <<start>>, start, self.rng)
    ELSE build_tour_vec(self, fr.tau_alpha, fr.eta_beta, <<start>>, {start}, 1, self.rng)

\* tau ** alpha and eta ** beta, element-wise
matrix_power(n, mat, k) == [i \in Cities(n) |-> [j \in Cities(n) |-> FPow(mat[i][j], k)]]

\* tau multiplied by the evaporation rate 1 - p
evaporate_by_rate(n, tau, p) ==
    [i \in Cities(n) |-> [j \in Cities(n) |-> FMul(tau[i][j], FAdd(One, FMul(<<-1, 1>>, p)))]]

\* self.tau *= self.p
evaporate(n, tau, p) == [i \in Cities(n) |-> [j \in Cities(n) |-> FMul(tau[i][j], p)]]

\* the deposit of one ant, loop engine: tau[a,b] += delta; tau[b,a] += delta for
\* the consecutive pairs from position i on
RECURSIVE deposit_tour(_, _, _, _)
deposit_tour(tau, tour, delta_tau, i) ==
    IF i >= Len(tour) THEN tau
    ELSE LET city_from == tour[i]
             city_to == tour[i + 1]
             fwd == [tau EXCEPT ![city_from][city_to] = FAdd(@, delta_tau)]
             both == [fwd EXCEPT ![city_to][city_from] = FAdd(@, delta_tau)]
         IN deposit_tour(both, tour, delta_tau, i + 1)

\* np.add.at(tau, (rows, cols), delta): unbuffered, repeated index pairs add up
RECURSIVE add_at(_, _, _, _, _)
add_at(tau, rows, cols, delta_tau, i) ==
    IF i > Len(rows) THEN tau
    ELSE add_at([tau EXCEPT ![rows[i]][cols[i]] = FAdd(@, delta_tau)],
                rows, cols, delta_tau, i + 1)

\* the deposit of one ant, vectorised engine: all (from, to), then all (to, from)
deposit_tour_vec(tau, tour, delta_tau) ==
    LET cities_from == SubSeq(tour, 1, Len(tour) - 1)
        cities_to == SubSeq(tour, 2, Len(tour))
    IN add_at(add_at(tau, cities_from, cities_to, delta_tau, 1),
              cities_to, cities_from, delta_tau, 1)

\* a deposit on tau[a,b] only, not on tau[b,a]
deposit_one_way(self, tour, L_k) ==
    add_at(self.tau, SubSeq(tour, 1, Len(tour) - 1), SubSeq(tour, 2, Len(tour)),
           FDiv(self.Q, L_k), 1)

\* a deposit of Q per edge, not scaled by the tour's length
deposit_unscaled(self, tour, L_k) == deposit_tour(self.tau, tour, self.Q, 1)

\* the deposit of ant k as the engine's implementation makes it
deposit(self, tour, L_k) ==
    IF self.impl = "loop"
    THEN deposit_tour(self.tau, tour, FDiv(self.Q, L_k), 1)
    ELSE deposit_tour_vec(self.tau, tour, FDiv(self.Q, L_k))

\* Python's min over a non-empty list: the first of the smallest entries
RECURSIVE py_min(_)
py_min(s) ==
    IF Len(s) = 1 THEN s[1]
    ELSE LET rest == py_min(SubSeq(s, 1, Len(s) - 1))
         IN IF FLess(s[Len(s)], rest) THEN s[Len(s)] ELSE rest

\* 0-based position of the last entry equal to x
py_index_last(s, x) == (CHOOSE i \in 1..Len(s) : FEq(s[i], x) /\ \A j \in (i + 1)..Len(s) : ~FEq(s[j], x)) - 1

\* list.index(x): 0-based position of the first entry equal to x
py_index(s, x) == (CHOOSE i \in 1..Len(s) : FEq(s[i], x) /\ \A j \in 1..(i - 1) : ~FEq(s[j], x)) - 1

\* np.mean
np_mean(s) == FDiv(FSum(s), Float(Len(s), 1))

\* the cycle's best always replaces the global best
improves_always(best_len_cycle, best_len_global) == TRUE

\* the cycle's best replaces the global best whenever it differs
improves_if_different(best_len_cycle, best_len_global) ==
    ~FEq(best_len_cycle, best_len_global)

\* whether the cycle's best replaces the global best
improves(best_len_cycle, best_len_global) == FLess(best_len_cycle, best_len_global)

\* time.perf_counter() differences: what a measured duration can be (the three
\* durations of a call are drawn when its record is built)
Durations == {0, 1}

IdleFrame == [pc |-> "idle", k |-> 0, tours |-> <<>>, lengths |-> <<>>,
              tau_alpha |-> <<>>, eta_beta |-> <<>>]

\* run_cycle is called: the vectorised engine takes tau ** alpha and eta ** beta
\* once for all ants
RunCycleBegin(e) ==
    /\ frame[e].pc = "idle"
    /\ obs[e].cycles < MaxCycles
    /\ frame' = [frame EXCEPT ![e] =
          [pc |-> enter(engine[e], "construct"),
           k |-> 0, tours |-> <<>>, lengths |-> <<>>,
           tau_alpha |-> IF engine[e].impl = "vec"
                         THEN matrix_power(engine[e].n, engine[e].tau, engine[e].alpha)
                         ELSE <<>>,
           eta_beta |-> IF engine[e].impl = "vec"
                        THEN matrix_power(engine[e].n, engine[e].eta, engine[e].beta)
                        ELSE <<>>]]
    /\ stats' = [stats EXCEPT ![e] = <<>>]
    /\ obs' = [obs EXCEPT ![e].tau_start = engine[e].tau,
                          ![e].best_before = engine[e].best_len_global,
                          ![e].pos_start = engine[e].rng.pos]
    /\ UNCHANGED <<engine, bench, disk>>

\* step 1, one pass of the loop over the ants: ant k builds and measures its
\* tour; k % self.n raises ZeroDivisionError when there is no city
ConstructTour(e) ==
    /\ frame[e].pc = "construct"
    /\ LET self == engine[e]
           k == frame[e].k
           built == build_probabilistic_tour(self, frame[e], start_city(k, self.n))
           length == tour_length(self.dist, built.tour)
       IN IF self.n = 0
          THEN /\ frame' = [frame EXCEPT ![e].pc = "raised"]
               /\ UNCHANGED engine
          ELSE /\ engine' = [engine EXCEPT ![e].rng = built.rng]
               /\ frame' = [frame EXCEPT ![e].tours = Append(@, built.tour),
                                         ![e].lengths = Append(@, length),
                                         ![e].k = IF k + 1 < self.m THEN k + 1 ELSE 0,
                                         ![e].pc = IF k + 1 < self.m THEN "construct"
                                                   ELSE enter(self, next_phase("construct"))]
    /\ UNCHANGED <<stats, obs, bench, disk>>

\* step 2: evaporation
Evaporate(e) ==
    /\ frame[e].pc = "evaporate"
    /\ engine' = [engine EXCEPT ![e].tau = evaporate(engine[e].n, @, engine[e].p)]
    /\ frame' = [frame EXCEPT ![e].pc = enter(engine[e], next_phase("evaporate")),
                              ![e].k = 0]
    /\ UNCHANGED <<stats, obs, bench, disk>>

\* step 3, one pass of the loop over the ants: ant k deposits along its tour
Deposit(e) ==
    /\ frame[e].pc = "deposit"
    /\ LET self == engine[e]
           k == frame[e].k
       IN /\ engine' = [engine EXCEPT ![e].tau =
                            deposit(self, frame[e].tours[k + 1], frame[e].lengths[k + 1])]
          /\ frame' = [frame EXCEPT ![e].k = IF k + 1 < self.m THEN k + 1 ELSE 0,
                                    ![e].pc = IF k + 1 < self.m THEN "deposit"
                                              ELSE enter(self, next_phase("deposit"))]
    /\ UNCHANGED <<stats, obs, bench, disk>>

\* steps 4 and 5 and the return: the global best, the mean, the record; min() of
\* an empty list raises
UpdateBest(e) ==
    /\ frame[e].pc = "update"
    /\ UNCHANGED <<bench, disk>>
    /\ LET self == engine[e]
           tours == frame[e].tours
           lengths == frame[e].lengths
       IN IF lengths = <<>>
          THEN /\ frame' = [frame EXCEPT ![e].pc = "raised"]
               /\ UNCHANGED <<engine, stats, obs>>
          ELSE LET best_len_cycle == py_min(lengths)
                   best_idx_cycle == py_index(lengths, best_len_cycle)
                   best_tour_cycle == tours[best_idx_cycle + 1]
                   better == improves(best_len_cycle, self.best_len_global)
                   best_len == IF better THEN best_len_cycle ELSE self.best_len_global
                   best_tour == IF better THEN best_tour_cycle ELSE self.best_tour_global
               IN /\ engine' = [engine EXCEPT ![e].best_len_global = best_len,
                                              ![e].best_tour_global = best_tour]
                  /\ \E tc \in Durations, te \in Durations, td \in Durations :
                        stats' = [stats EXCEPT ![e] =
                           <<[best_len_cycle |-> best_len_cycle,
                              mean_len_cycle |-> np_mean(lengths),
                              best_len_global |-> best_len,
                              best_tour_global |-> best_tour,
                              all_lengths |-> lengths,
                              time_construction |-> tc,
                              time_evaporation |-> te,
                              time_deposit |-> td]>>]
                  /\ frame' = [frame EXCEPT ![e] = IdleFrame]
                  /\ obs' = [obs EXCEPT ![e].cycles = @ + 1,
                                        ![e].built = @ \cup Range(lengths),
                                        ![e].last_tours = tours,
                                        ![e].best_lens = Append(@, best_len_cycle),
                                        ![e].mean_lens = Append(@, np_mean(lengths))]

(***************************************************************************)
(* Inputs                                                                  *)
(***************************************************************************)
\* city sets whose pairwise distances are integers: two cities, a 3-4-5
\* triangle, a triangle with two coincident cities, a 3 x 4 rectangle
CitySets ==
    { << <<0, 0>>, <<3, 0>> >>,
      << <<0, 0>>, <<3, 0>>, <<3, 4>> >>,
      << <<3, 4>>, <<0, 0>>, <<0, 0>> >>,
      << <<0, 0>>, <<0, 3>>, <<4, 3>>, <<4, 0>> >> }

\* hyperparameter settings (alpha, beta integers; p the persistence; Q the deposit)
HyperParams ==
    { [alpha |-> 1, beta |-> 1, p |-> Float(1, 2), Q |-> Float(100, 1)],
      [alpha |-> 1, beta |-> 2, p |-> Float(1, 2), Q |-> Float(100, 1)],
      [alpha |-> 1, beta |-> 1, p |-> Zero, Q |-> Float(100, 1)],
      [alpha |-> 2, beta |-> 1, p |-> One, Q |-> Zero] }
AntCounts == {<<>>} \cup {<<k>> : k \in 1..MaxAnts}

\* values rng.random() can return, the boundary 0 among them
Draws == {Zero, Float(3, 4)}
Seeds == [1..StreamLen -> Draws]

Impls == {"loop", "vec"}

NoObs == [cycles |-> 0, built |-> {}, tau_start |-> <<>>, best_before |-> Inf,
          pos_start |-> 0, last_tours |-> <<>>, best_lens |-> <<>>, mean_lens |-> <<>>]

\* no sweep: the engines are driven by their caller directly
NoBench == [module |-> "none", mode |-> "none", pc |-> "none", idx |-> 0,
            configs |-> <<>>, job |-> <<>>, results |-> <<>>,
            sequential |-> <<>>, alone |-> <<>>]

\* no file of results at the path
MissingFile == [exists |-> FALSE, header |-> FALSE, lines |-> <<>>]

\* no results are stored or loaded: the file is left alone
NoDisk == [file |-> MissingFile, op |-> "none", df |-> <<>>, returned |-> <<>>,
           before |-> MissingFile]

Init ==
    \E impl \in Impls, coords \in CitySets, h \in HyperParams, m \in AntCounts,
       seed \in Seeds :
        /\ engine = [e \in {1} |->
                        ACOEngine(impl, coords, h.alpha, h.beta, h.p, h.Q, m, seed)]
        /\ frame = [e \in {1} |-> IdleFrame]
        /\ stats = [e \in {1} |-> <<>>]
        /\ obs = [e \in {1} |-> NoObs]
        /\ bench = NoBench
        /\ disk = NoDisk

Next ==
    \/ RunCycleBegin(1)
    \/ ConstructTour(1)
    \/ Evaporate(1)
    \/ Deposit(1)
    \/ UpdateBest(1)

Spec == Init /\ [][Next]_vars

(***************************************************************************)
(* Two engines constructed from the same arguments, stepped by a caller in *)
(* any interleaving                                                        *)
(***************************************************************************)
PairIds == {1, 2}

\* the 3 x 4 rectangle, whose tours have three different lengths
PairCitySets == { << <<0, 0>>, <<0, 3>>, <<4, 3>>, <<4, 0>> >> }

PairHyperParams ==
    { [alpha |-> 1, beta |-> 1, p |-> Float(1, 2), Q |-> Float(100, 1)] }

PairInit ==
    \E impl \in Impls, coords \in PairCitySets, h \in PairHyperParams, seed \in Seeds :
        /\ engine = [e \in PairIds |->
                        ACOEngine(impl, coords, h.alpha, h.beta, h.p, h.Q, <<2>>, seed)]
        /\ frame = [e \in PairIds |-> IdleFrame]
        /\ stats = [e \in PairIds |-> <<>>]
        /\ obs = [e \in PairIds |-> NoObs]
        /\ bench = NoBench
        /\ disk = NoDisk

PairNext ==
    \/ \E e \in PairIds : RunCycleBegin(e)
    \/ \E e \in PairIds : ConstructTour(e)
    \/ \E e \in PairIds : Evaporate(e)
    \/ \E e \in PairIds : Deposit(e)
    \/ \E e \in PairIds : UpdateBest(e)

SpecPair == PairInit /\ [][PairNext]_vars

(***************************************************************************)
(* The loop-based engine (1) and the vectorised engine (2) constructed     *)
(* from the same arguments, stepped by a caller in any interleaving        *)
(***************************************************************************)
\* two cities, and the 3 x 4 rectangle
TwinCitySets ==
    { << <<0, 0>>, <<3, 0>> >>,
      << <<0, 0>>, <<0, 3>>, <<4, 3>>, <<4, 0>> >> }

TwinInit ==
    \E coords \in TwinCitySets, h \in PairHyperParams, seed \in Seeds :
        /\ engine = [e \in PairIds |->
                        ACOEngine(IF e = 1 THEN "loop" ELSE "vec", coords,
                                  h.alpha, h.beta, h.p, h.Q, <<2>>, seed)]
        /\ frame = [e \in PairIds |-> IdleFrame]
        /\ stats = [e \in PairIds |-> <<>>]
        /\ obs = [e \in PairIds |-> NoObs]
        /\ bench = NoBench
        /\ disk = NoDisk

SpecTwin == TwinInit /\ [][PairNext]_vars

(***************************************************************************)
(* An engine constructed from arguments at and beyond the edge of what the *)
(* documentation allows: no city, one city, coincident cities, no ant, a   *)
(* persistence outside [0, 1]                                              *)
(***************************************************************************)
\* no city, one city, two and three coincident cities, two distinct cities
EdgeCitySets ==
    { <<>>,
      << <<0, 0>> >>,
      << <<0, 0>>, <<0, 0>> >>,
      << <<0, 0>>, <<0, 0>>, <<0, 0>> >>,
      << <<0, 0>>, <<3, 0>> >> }

EdgeHyperParams ==
    { [alpha |-> 1, beta |-> 1, p |-> Float(1, 2), Q |-> Float(100, 1)],
      [alpha |-> 1, beta |-> 1, p |-> Float(3, 2), Q |-> Float(100, 1)],
      [alpha |-> 1, beta |-> 1, p |-> Float(-1, 2), Q |-> Float(100, 1)],
      [alpha |-> 1, beta |-> 1, p |-> One, Q |-> Zero] }

\* m: None, zero, negative, one, two
EdgeAntCounts == {<<>>, <<0>>, <<-1>>, <<1>>, <<2>>}

\* the seeds whose stream repeats one draw
EdgeSeeds == {seed \in Seeds : \A i \in 1..StreamLen : seed[i] = seed[1]}

EdgeInit ==
    \E impl \in Impls, coords \in EdgeCitySets, h \in EdgeHyperParams,
       m \in EdgeAntCounts, seed \in EdgeSeeds :
        /\ engine = [e \in {1} |->
                        ACOEngine(impl, coords, h.alpha, h.beta, h.p, h.Q, m, seed)]
        /\ frame = [e \in {1} |-> IdleFrame]
        /\ stats = [e \in {1} |-> <<>>]
        /\ obs = [e \in {1} |-> NoObs]
        /\ bench = NoBench
        /\ disk = NoDisk

SpecEdge == EdgeInit /\ [][Next]_vars

(***************************************************************************)
(* The benchmark sweep: run_benchmarks of src/model/benchmark.py (on the   *)
(* loop-based engine) and run_single_benchmark, run_benchmarks and         *)
(* run_benchmarks_parallel of src/ANT-tsp-_demo-main/model/benchmark.py    *)
(* (on the vectorised engine)                                              *)
(***************************************************************************)
\* the number of configurations of a sweep
MaxConfigs == 2

\* f with f[k] set to v, k added to its domain if need be
Put(f, k, v) == [x \in (DOMAIN f) \cup {k} |-> IF x = k THEN v ELSE f[x]]

\* -a
FNeg(a) == <<-a[1], a[2]>>

\* rng.uniform(low, high) from one raw draw: low + (high - low) * draw
uniform(low, high, r) == FAdd(Float(low, 1), FMul(Float(high - low, 1), r))

\* generate_cities(n, seed), n >= 0: n points of [0, 100] x [0, 100] drawn in row
\* order from a fresh generator seeded with `seed`. A coordinate is kept as an
\* integer: the draws of the model are multiples of 1/100.
generate_cities(n, seed) ==
    LET coord(i) ==
            LET x == uniform(0, 100, RngPeek([seed |-> seed, pos |-> i - 1]))
            IN x[1] \div x[2]
    IN [i \in 1..n |-> <<coord(2 * i - 1), coord(2 * i)>>]

\* RunConfig; beta is set to 1 in place of its default
RunConfig(n, m, cycles, seed) ==
    [n |-> n, m |-> m, cycles |-> cycles, alpha |-> 1, beta |-> 1,
     p |-> Float(1, 2), Q |-> Float(100, 1), seed |-> seed]

\* the improvement is measured against the final mean in place of the best
improvement_pct_of_mean(first_best_len, last_mean_len, best_len_global) ==
    IF first_best_len # <<>> /\ ~FEq(first_best_len[1], Zero)
                             /\ FLess(Zero, first_best_len[1])
    THEN FMul(FDiv(FAdd(first_best_len[1], FNeg(last_mean_len[1])), first_best_len[1]),
              Float(100, 1))
    ELSE Zero

\* improvement_pct: 0.0 unless first_best_len is set, non-zero and positive
improvement_pct(first_best_len, last_mean_len, best_len_global) ==
    IF first_best_len # <<>> /\ ~FEq(first_best_len[1], Zero)
                             /\ FLess(Zero, first_best_len[1])
    THEN FMul(FDiv(FAdd(first_best_len[1], FNeg(best_len_global)), first_best_len[1]),
              Float(100, 1))
    ELSE Zero

\* the result dictionary of one configuration
result_row(config, total_time, self, job) ==
    [n |-> config.n, m |-> config.m, cycles |-> config.cycles,
     alpha |-> config.alpha, beta |-> config.beta, p |-> config.p, Q |-> config.Q,
     seed |-> config.seed,
     runtime_sec |-> total_time,
     time_per_cycle |-> Float(total_time, config.cycles),
     best_len_global |-> self.best_len_global,
     mean_len_final |-> job.last_mean_len,
     improvement_pct |-> improvement_pct(job.first_best_len, job.last_mean_len,
                                         self.best_len_global)]

PendingJob == [pc |-> "pending", cycle_idx |-> 0, first_best_len |-> <<>>,
               last_mean_len |-> <<>>, result |-> <<>>]

\* the first exception ends the sweep
on_exception_break(b, c) ==
    [b EXCEPT !.job[c].pc = "failed", !.idx = Len(b.configs) + 1]

\* except Exception: the configuration gives no row (None); the sequential
\* sweep continues with the next configuration
on_exception(b, c) ==
    [b EXCEPT !.job[c].pc = "failed",
              !.idx = IF b.mode = "sequential" THEN @ + 1 ELSE @]

\* pool.map and the filter on None: the rows of the jobs in the order of the
\* configurations
RECURSIVE pool_map_from(_, _)
pool_map_from(b, c) ==
    IF c > Len(b.configs) THEN <<>>
    ELSE b.job[c].result \o pool_map_from(b, c + 1)

pool_map(b) == pool_map_from(b, 1)

\* the job of configuration c starts: the cities are generated (a negative n
\* raises) and a fresh engine is constructed
BenchStart(c) ==
    /\ bench.pc = "sweep"
    /\ UNCHANGED disk
    /\ c \in DOMAIN bench.configs
    /\ bench.job[c].pc = "pending"
    /\ bench.mode = "sequential" => c = bench.idx
    /\ LET config == bench.configs[c]
       IN IF config.n < 0
          THEN /\ bench' = on_exception(bench, c)
               /\ UNCHANGED <<engine, frame, stats, obs>>
          ELSE /\ engine' = Put(engine, c,
                                ACOEngine(bench.module, generate_cities(config.n, config.seed),
                                          config.alpha, config.beta, config.p, config.Q,
                                          <<config.m>>, config.seed))
               /\ frame' = Put(frame, c, IdleFrame)
               /\ stats' = Put(stats, c, <<>>)
               /\ obs' = Put(obs, c, NoObs)
               /\ bench' = [bench EXCEPT !.job[c].pc = "cycles", !.job[c].cycle_idx = 1]

\* for cycle_idx in range(1, config.cycles + 1): stats = engine.run_cycle()
BenchRunCycle(c) ==
    /\ bench.pc = "sweep"
    /\ c \in DOMAIN bench.configs
    /\ bench.job[c].pc = "cycles"
    /\ bench.job[c].cycle_idx <= bench.configs[c].cycles
    /\ obs[c].cycles = bench.job[c].cycle_idx - 1
    /\ RunCycleBegin(c)

\* the loop body after the call has returned: the first call's best length and
\* the last call's mean length are kept, and the record is done with
BenchNoteStats(c) ==
    /\ bench.pc = "sweep"
    /\ UNCHANGED disk
    /\ c \in DOMAIN bench.configs
    /\ bench.job[c].pc = "cycles"
    /\ frame[c].pc = "idle"
    /\ stats[c] # <<>>
    /\ obs[c].cycles = bench.job[c].cycle_idx
    /\ bench' = [bench EXCEPT
          !.job[c].first_best_len =
              IF bench.job[c].cycle_idx = 1 THEN <<stats[c][1].best_len_cycle>> ELSE @,
          !.job[c].last_mean_len =
              IF bench.job[c].cycle_idx = bench.configs[c].cycles
              THEN <<stats[c][1].mean_len_cycle>> ELSE @,
          !.job[c].cycle_idx = @ + 1]
    /\ stats' = [stats EXCEPT ![c] = <<>>]
    /\ UNCHANGED <<engine, frame, obs>>

\* a run_cycle call has raised
BenchExcept(c) ==
    /\ bench.pc = "sweep"
    /\ UNCHANGED disk
    /\ c \in DOMAIN bench.configs
    /\ bench.job[c].pc = "cycles"
    /\ frame[c].pc = "raised"
    /\ bench' = on_exception(bench, c)
    /\ UNCHANGED <<engine, frame, stats, obs>>

\* after the loop: the run time, the improvement and the row;
\* total_time / config.cycles raises ZeroDivisionError when cycles is 0
BenchFinish(c) ==
    /\ bench.pc = "sweep"
    /\ UNCHANGED disk
    /\ c \in DOMAIN bench.configs
    /\ bench.job[c].pc = "cycles"
    /\ frame[c].pc = "idle"
    /\ bench.job[c].cycle_idx > bench.configs[c].cycles
    /\ \E total_time \in Durations :
          IF bench.configs[c].cycles = 0
          THEN bench' = on_exception(bench, c)
          ELSE LET row == result_row(bench.configs[c], total_time, engine[c], bench.job[c])
               IN bench' = [bench EXCEPT
                     !.job[c].pc = "done",
                     !.job[c].result = <<row>>,
                     !.results = IF bench.mode = "sequential" THEN Append(@, row) ELSE @,
                     !.idx = IF bench.mode = "sequential" THEN @ + 1 ELSE @]
    /\ UNCHANGED <<engine, frame, stats, obs>>

\* the sweep returns its table: the list of rows of the sequential loop, or
\* what pool.map returned without the None entries
BenchReturn ==
    /\ bench.pc = "sweep"
    /\ UNCHANGED disk
    /\ IF bench.mode = "sequential"
       THEN bench.idx > Len(bench.configs)
       ELSE \A c \in DOMAIN bench.configs : bench.job[c].pc \in {"done", "failed"}
    /\ bench' = [bench EXCEPT
          !.pc = "done",
          !.results = IF bench.mode = "parallel" THEN pool_map(bench) ELSE @]
    /\ UNCHANGED <<engine, frame, stats, obs>>

\* run_benchmarks_parallel is called on the list run_benchmarks has just been
\* run on: the table and the engines of the sequential sweep are kept for
\* comparison
BenchParallelCall ==
    /\ bench.pc = "done"
    /\ UNCHANGED disk
    /\ bench.mode = "sequential"
    /\ bench.module = "vec"
    /\ bench' = [bench EXCEPT
          !.mode = "parallel", !.pc = "sweep", !.idx = 0,
          !.job = [c \in DOMAIN bench.configs |-> PendingJob],
          !.results = <<>>,
          !.sequential = <<bench.results>>,
          !.alone = engine]
    /\ UNCHANGED <<engine, frame, stats, obs>>

\* every pair of cities shares a coordinate, so that every distance is the
\* difference of the other one
Measurable(coords) ==
    \A i \in 1..Len(coords), j \in 1..Len(coords) :
        coords[i][1] = coords[j][1] \/ coords[i][2] = coords[j][2]

\* the seeds whose stream has 0.75 as one draw and 0.0 everywhere else
SweepSeeds ==
    {seed \in Seeds : \E h \in 1..StreamLen :
        \A i \in 1..StreamLen : seed[i] = IF i = h THEN Float(3, 4) ELSE Zero}

\* (n, m, cycles) of the configurations a sweep goes through, in a ring: four
\* cities and one ant for MaxCycles cycles, two cities and two ants, a negative
\* number of cities, no ant, no cycle, no city
SweepShapes ==
    << <<4, 1, MaxCycles>>, <<2, 2, 1>>, <<-1, 1, 1>>, <<4, 1, MaxCycles>>,
       <<2, 0, 1>>, <<2, 2, 1>>, <<2, 1, 0>>, <<4, 1, MaxCycles>>, <<0, 1, 1>> >>

\* the MaxConfigs configurations from position w of the ring on, all with one seed
ConfigList(w, seed) ==
    [c \in 1..MaxConfigs |->
        LET shape == SweepShapes[((w + c - 2) % Len(SweepShapes)) + 1]
        IN RunConfig(shape[1], shape[2], shape[3], seed)]

ConfigLists ==
    {list \in {ConfigList(w, seed) : w \in 1..Len(SweepShapes), seed \in SweepSeeds} :
        \A c \in 1..MaxConfigs :
            list[c].n >= 0 => Measurable(generate_cities(list[c].n, list[c].seed))}

JobIds == 1..MaxConfigs

SweepInit ==
    \E module \in Impls, configs \in ConfigLists :
        /\ engine = <<>>
        /\ frame = <<>>
        /\ stats = <<>>
        /\ obs = <<>>
        /\ bench = [module |-> module, mode |-> "sequential", pc |-> "sweep", idx |-> 1,
                    configs |-> configs,
                    job |-> [c \in DOMAIN configs |-> PendingJob],
                    results |-> <<>>, sequential |-> <<>>, alone |-> <<>>]
        /\ disk = NoDisk

SweepNext ==
    \/ \E c \in JobIds : BenchStart(c)
    \/ \E c \in JobIds : BenchRunCycle(c)
    \/ \E c \in JobIds : c \in DOMAIN engine /\ ConstructTour(c)
    \/ \E c \in JobIds : c \in DOMAIN engine /\ Evaporate(c)
    \/ \E c \in JobIds : c \in DOMAIN engine /\ Deposit(c)
    \/ \E c \in JobIds : c \in DOMAIN engine /\ UpdateBest(c)
    \/ \E c \in JobIds : BenchNoteStats(c)
    \/ \E c \in JobIds : BenchExcept(c)
    \/ \E c \in JobIds : BenchFinish(c)
    \/ BenchReturn
    \/ BenchParallelCall

SpecSweep == SweepInit /\ [][SweepNext]_vars

(***************************************************************************)
(* The CSV file of results: save_benchmarks, load_benchmarks and           *)
(* append_benchmarks of model/benchmark.py (the same in both trees).       *)
(* A DataFrame is [columns, rows]: whether it has columns, and its rows    *)
(* [n, seed], seed a number written as a string, "None" or "nan". A file   *)
(* is [exists, header, lines]: a line is <<"row", r>>, r a row as text, or *)
(* <<"bad", r>>, a line with a field too many.                             *)
(***************************************************************************)
\* the number of lines a file can grow to
MaxRows == 3

\* a cell as DataFrame.to_csv writes it: a missing value is an empty field
to_csv_cell(v) == IF v \in {"None", "nan"} THEN "" ELSE v

\* a field as pd.read_csv reads it: an empty field is nan
read_csv_cell(t) == IF t = "" THEN "nan" ELSE t

\* df.to_csv(path, index=False): the file is created or overwritten; a
\* DataFrame without columns leaves no header line
to_csv(df) ==
    [exists |-> TRUE,
     header |-> df.columns,
     lines |-> [i \in 1..Len(df.rows) |->
                  <<"row", [n |-> df.rows[i].n, seed |-> to_csv_cell(df.rows[i].seed)]>>]]

\* pd.read_csv(path): <<df>>, or <<>> when it raises: no header line
\* (EmptyDataError) or a line with a field too many (ParserError)
read_csv(file) ==
    IF ~file.header \/ \E i \in 1..Len(file.lines) : file.lines[i][1] = "bad"
    THEN <<>>
    ELSE <<[columns |-> TRUE,
            rows |-> [i \in 1..Len(file.lines) |->
                        [n |-> file.lines[i][2].n,
                         seed |-> read_csv_cell(file.lines[i][2].seed)]]]>>

\* pd.concat([existing_df, df], ignore_index=True)
concat(existing_df, df) ==
    [columns |-> existing_df.columns \/ df.columns, rows |-> existing_df.rows \o df.rows]

\* save_benchmarks(df, path): the file afterwards
save_benchmarks(df) == to_csv(df)

\* load_benchmarks(path): <<df>>, or <<>> for None: the file does not exist or
\* pd.read_csv raised
load_benchmarks(file) == IF ~file.exists THEN <<>> ELSE read_csv(file)

\* append_benchmarks(df, path): the file afterwards
append_benchmarks(df, file) ==
    LET existing_df == load_benchmarks(file)
    IN IF existing_df # <<>>
       THEN save_benchmarks(concat(existing_df[1], df))
       ELSE save_benchmarks(df)

SaveBenchmarks(df) ==
    /\ Len(df.rows) <= MaxRows
    /\ disk' = [file |-> save_benchmarks(df), op |-> "save", df |-> <<df>>,
                returned |-> <<>>, before |-> disk.file]
    /\ UNCHANGED <<engine, frame, stats, obs, bench>>

LoadBenchmarks ==
    /\ disk' = [file |-> disk.file, op |-> "load", df |-> <<>>,
                returned |-> load_benchmarks(disk.file), before |-> disk.file]
    /\ UNCHANGED <<engine, frame, stats, obs, bench>>

AppendBenchmarks(df) ==
    /\ Len(disk.file.lines) + Len(df.rows) <= MaxRows
    /\ disk' = [file |-> append_benchmarks(df, disk.file), op |-> "append", df |-> <<df>>,
                returned |-> <<>>, before |-> disk.file]
    /\ UNCHANGED <<engine, frame, stats, obs, bench>>

\* rows of results: with a seed, and with seed None
ResultRows == {[n |-> 10, seed |-> "42"], [n |-> 20, seed |-> "None"]}

\* the tables a caller passes: no row (with or without columns), one row, two rows
Frames ==
    {[columns |-> FALSE, rows |-> <<>>], [columns |-> TRUE, rows |-> <<>>]}
      \cup {[columns |-> TRUE, rows |-> <<r>>] : r \in ResultRows}
      \cup {[columns |-> TRUE, rows |-> <<r, q>>] : r \in ResultRows, q \in ResultRows}

\* what is at the path to begin with: nothing, a file of one row, or a file
\* of one row followed by a line with a field too many (a file another
\* program, or an interrupted write, left behind)
StartFiles ==
    {MissingFile}
      \cup {to_csv([columns |-> TRUE, rows |-> <<r>>]) : r \in ResultRows}
      \cup {[exists |-> TRUE, header |-> TRUE,
              lines |-> <<<<"row", [n |-> 10, seed |-> "42"]>>,
                          <<"bad", [n |-> 20, seed |-> ""]>>>>]}

StoreInit ==
    \E file \in StartFiles :
        /\ engine = <<>>
        /\ frame = <<>>
        /\ stats = <<>>
        /\ obs = <<>>
        /\ bench = NoBench
        /\ disk = [NoDisk EXCEPT !.file = file, !.before = file]

StoreNext ==
    \/ \E df \in Frames : SaveBenchmarks(df)
    \/ LoadBenchmarks
    \/ \E df \in Frames : AppendBenchmarks(df)

SpecStore == StoreInit /\ [][StoreNext]_vars

(***************************************************************************)
(* Properties                                                              *)
(***************************************************************************)
Engines == DOMAIN engine

\* the tours a state holds: those of the cycle in progress and those of the
\* last completed cycle
KnownTours(e) == Range(frame[e].tours) \cup Range(obs[e].last_tours)

\* n + 1 entries, closed, the first n a permutation of 0..n-1
IsValidTour(tour, n) ==
    /\ Len(tour) = n + 1
    /\ tour[1] = tour[n + 1]
    /\ {tour[i] : i \in 1..n} = Cities(n)

\* C1: every tour built by every ant has n+1 entries, starts and ends at the
\* same city and visits each of the n cities exactly once, whatever the draws
\* (the draw 0 included).
C1_EveryTourValid ==
    \A e \in Engines : \A tour \in KnownTours(e) : IsValidTour(tour, engine[e].n)

\* C1 restricted to the loop-based engine, where it holds
C1_LoopToursValid ==
    \A e \in Engines : engine[e].impl = "loop" =>
        \A tour \in KnownTours(e) : IsValidTour(tour, engine[e].n)

\* the least element of a non-empty set of floats is x
IsMinimumOf(x, S) == x \in S /\ \A y \in S : FLeq(x, y)

\* C2: best_len_global is the minimum length over all tours built in the
\* run_cycle calls completed so far, and +inf when none has completed.
C2_BestIsMinimumBuilt ==
    \A e \in Engines :
        IF obs[e].cycles = 0
        THEN engine[e].best_len_global = Inf /\ obs[e].built = {}
        ELSE IsMinimumOf(engine[e].best_len_global, obs[e].built)

\* two cycles completed, and the last one's best is longer than the global best
C2_Witness ==
    \E e \in Engines :
        /\ engine[e].impl = "loop"
        /\ obs[e].cycles >= 2
        /\ frame[e].pc = "idle"
        /\ FLess(engine[e].best_len_global, stats[e][1].best_len_cycle)

\* C3: best_len_global never increases from one state to the next, hence from
\* one run_cycle call to the next.
C3_BestNeverIncreases ==
    [][\A e \in Engines :
          FLeq(engine'[e].best_len_global, engine[e].best_len_global)]_vars

\* a second call that strictly improved on the first call's finite best
C3_Witness ==
    \E e \in Engines :
        /\ engine[e].impl = "loop"
        /\ obs[e].cycles >= 2
        /\ frame[e].pc = "idle"
        /\ IsFinite(obs[e].best_before)
        /\ FLess(engine[e].best_len_global, obs[e].best_before)

IsSymmetric(n, mat) == \A i \in Cities(n), j \in Cities(n) : mat[i][j] = mat[j][i]

\* C5: tau and dist are symmetric in every reachable state: after
\* construction, after evaporation and after every ant's deposit.
C5_TauDistSymmetric ==
    \A e \in Engines :
        /\ IsSymmetric(engine[e].n, engine[e].tau)
        /\ IsSymmetric(engine[e].n, engine[e].dist)

\* all deposits of a cycle made, on a tau that is no longer uniform
C5_Witness ==
    \E e \in Engines :
        /\ frame[e].pc = "update"
        /\ \E i \in Cities(engine[e].n), j \in Cities(engine[e].n),
              k \in Cities(engine[e].n) :
              /\ i # j /\ i # k /\ j # k
              /\ engine[e].tau[i][j] # engine[e].tau[i][k]
              /\ FLess(Zero, engine[e].tau[i][j])

\* the number of consecutive pairs (a, b) of a tour with {a, b} = {i, j}
Traversals(tour, i, j) ==
    Cardinality({x \in 1..(Len(tour) - 1) : {tour[x], tour[x + 1]} = {i, j}})

\* the edge {i, j} is on no tour of the last completed cycle
Untraversed(e, i, j) == \A k \in 1..Len(obs[e].last_tours) : Traversals(obs[e].last_tours[k], i, j) = 0

\* C6: right after the evaporation step every off-diagonal entry of tau is p
\* times its value at the start of the cycle, and an edge no ant traversed ends
\* the cycle at exactly p times its value at the start of the cycle.
C6_EvaporationLaw ==
    \A e \in Engines : \A i \in Cities(engine[e].n), j \in Cities(engine[e].n) :
        i # j =>
          /\ (frame[e].pc = "deposit" /\ frame[e].k = 0) =>
                engine[e].tau[i][j] = FMul(obs[e].tau_start[i][j], engine[e].p)
          /\ (frame[e].pc = "idle" /\ obs[e].cycles > 0 /\ Untraversed(e, i, j)) =>
                engine[e].tau[i][j] = FMul(obs[e].tau_start[i][j], engine[e].p)

\* a second cycle that left an edge untraversed whose pheromone was not 1 and
\* of which half was retained
C6_Witness ==
    \E e \in Engines : \E i \in Cities(engine[e].n), j \in Cities(engine[e].n) :
        /\ engine[e].impl = "loop"
        /\ i # j
        /\ frame[e].pc = "idle" /\ obs[e].cycles >= 2
        /\ Untraversed(e, i, j)
        /\ engine[e].p = Float(1, 2)
        /\ obs[e].tau_start[i][j] # One
        /\ FLess(Zero, engine[e].tau[i][j])

\* x added to itself c times on top of acc
RECURSIVE AddTimes(_, _, _)
AddTimes(acc, x, c) == IF c = 0 THEN acc ELSE AddTimes(FAdd(acc, x), x, c - 1)

\* p * tau0 plus, for the ants 1..k in turn, Q / L_k once per traversal by ant k
RECURSIVE ExpectedTau(_, _, _, _, _, _, _, _)
ExpectedTau(tau0, p, Q, tours, lengths, i, j, k) ==
    IF k = 0 THEN FMul(tau0, p)
    ELSE AddTimes(ExpectedTau(tau0, p, Q, tours, lengths, i, j, k - 1),
                  FDiv(Q, lengths[k]), Traversals(tours[k], i, j))

\* C7: after one run_cycle, for i # j, tau[i][j] is p times its value at the
\* start of the cycle plus, summed over all m ants k, Q / L_k once for every
\* consecutive pair (a, b) of ant k's tour with {a, b} = {i, j}.
C7_DepositLaw ==
    \A e \in Engines :
        (frame[e].pc = "idle" /\ obs[e].cycles > 0) =>
            \A i \in Cities(engine[e].n), j \in Cities(engine[e].n) :
                i # j =>
                    engine[e].tau[i][j] =
                        ExpectedTau(obs[e].tau_start[i][j], engine[e].p, engine[e].Q,
                                    obs[e].last_tours, stats[e][1].all_lengths,
                                    i, j, engine[e].m)

\* a cycle in which two ants with tours of different lengths deposited on one
\* edge, half of the old pheromone being retained
C7_Witness ==
    \E e \in Engines : \E i \in Cities(engine[e].n), j \in Cities(engine[e].n) :
        /\ engine[e].impl = "loop"
        /\ i # j
        /\ frame[e].pc = "idle" /\ obs[e].cycles >= 2
        /\ engine[e].p = Float(1, 2) /\ FLess(Zero, engine[e].Q)
        /\ \E a \in 1..engine[e].m, b \in 1..engine[e].m :
              /\ a # b
              /\ Traversals(obs[e].last_tours[a], i, j) > 0
              /\ Traversals(obs[e].last_tours[b], i, j) > 0
              /\ stats[e][1].all_lengths[a] # stats[e][1].all_lengths[b]

\* C8: within one run_cycle tau is not modified until all m tours are built
\* and measured (so all ants choose from the tau the previous cycle left), the
\* deposits are added after the evaporation and are not attenuated by it, and
\* the global best is updated last.
C8_StepOrder ==
    \A e \in Engines :
        LET self == engine[e]
            fr == frame[e]
        IN /\ fr.pc \in {"construct", "evaporate"} =>
                /\ self.tau = obs[e].tau_start
                /\ self.impl = "vec" =>
                      fr.tau_alpha = matrix_power(self.n, obs[e].tau_start, self.alpha)
           /\ fr.pc = "evaporate" => Len(fr.tours) = self.m /\ Len(fr.lengths) = self.m
           /\ fr.pc \in {"construct", "evaporate", "deposit", "update"} =>
                self.best_len_global = obs[e].best_before
           /\ fr.pc \in {"deposit", "update"} =>
                \A i \in Cities(self.n), j \in Cities(self.n) :
                    i # j =>
                        self.tau[i][j] =
                            ExpectedTau(obs[e].tau_start[i][j], self.p, self.Q,
                                        fr.tours, fr.lengths, i, j,
                                        IF fr.pc = "update" THEN self.m ELSE fr.k)

\* the second ant of a second cycle about to build its tour, the first cycle's
\* deposits having made tau non-uniform
C8_Witness ==
    \E e \in Engines :
        /\ obs[e].cycles >= 1
        /\ frame[e].pc = "construct" /\ frame[e].k >= 1
        /\ \E i \in Cities(engine[e].n), j \in Cities(engine[e].n),
              k \in Cities(engine[e].n) :
              /\ i # j /\ i # k /\ j # k
              /\ engine[e].tau[i][j] # engine[e].tau[i][k]

\* C9: ant k (k = 0..m-1) starts and ends its tour at city k mod n.
C9_RoundRobinStart ==
    \A e \in Engines :
        /\ \A x \in 1..Len(frame[e].tours) :
              /\ frame[e].tours[x][1] = (x - 1) % engine[e].n
              /\ frame[e].tours[x][Len(frame[e].tours[x])] = (x - 1) % engine[e].n
        /\ \A x \in 1..Len(obs[e].last_tours) :
              /\ obs[e].last_tours[x][1] = (x - 1) % engine[e].n
              /\ obs[e].last_tours[x][Len(obs[e].last_tours[x])] = (x - 1) % engine[e].n

\* more ants than cities: the ant after the last city starts at city 0 again
C9_Witness ==
    \E e \in Engines :
        /\ engine[e].m > engine[e].n
        /\ Len(obs[e].last_tours) = engine[e].m
        /\ obs[e].last_tours[engine[e].n + 1][1] = 0
        /\ obs[e].last_tours[engine[e].n][1] = engine[e].n - 1

\* the sum of dist over the consecutive pairs of a tour from position i on
RECURSIVE PathLength(_, _, _)
PathLength(dist, tour, i) ==
    IF i >= Len(tour) THEN Zero
    ELSE FAdd(dist[tour[i]][tour[i + 1]], PathLength(dist, tour, i + 1))

\* C10: the record run_cycle returns: all_lengths has m entries, entry k the
\* length of ant k's tour; best_len_cycle is their minimum; mean_len_cycle is
\* their sum divided by m; best_len_global is the engine's value after the
\* update and is at most best_len_cycle; best_tour_global is the engine's tour.
C10_StatsRecord ==
    \A e \in Engines :
        stats[e] # <<>> =>
            LET r == stats[e][1]
                self == engine[e]
            IN /\ Len(r.all_lengths) = self.m
               /\ Len(obs[e].last_tours) = self.m
               /\ \A k \in 1..self.m :
                     r.all_lengths[k] = PathLength(self.dist, obs[e].last_tours[k], 1)
               /\ IsMinimumOf(r.best_len_cycle, Range(r.all_lengths))
               /\ FMul(r.mean_len_cycle, Float(self.m, 1)) = FSum(r.all_lengths)
               /\ r.best_len_global = self.best_len_global
               /\ FLeq(r.best_len_global, r.best_len_cycle)
               /\ r.best_tour_global = self.best_tour_global

\* a record of a cycle with ants of different lengths, whose best is still
\* longer than the global best
C10_Witness ==
    \E e \in Engines :
        /\ engine[e].impl = "loop"
        /\ stats[e] # <<>>
        /\ engine[e].m >= 2
        /\ Cardinality(Range(stats[e][1].all_lengths)) >= 2
        /\ FLess(stats[e][1].best_len_global, stats[e][1].best_len_cycle)

\* both engines have returned from the same number (at least one) of calls
SameCallsReturned ==
    /\ Engines = PairIds
    /\ frame[1].pc = "idle" /\ frame[2].pc = "idle"
    /\ obs[1].cycles = obs[2].cycles
    /\ obs[1].cycles > 0

\* a statistics record without its three measured durations
WithoutTimes(r) ==
    [best_len_cycle |-> r.best_len_cycle,
     mean_len_cycle |-> r.mean_len_cycle,
     best_len_global |-> r.best_len_global,
     best_tour_global |-> r.best_tour_global,
     all_lengths |-> r.all_lengths]

\* C4 as stated: two engines built from identical coordinates, hyperparameters
\* and seed return identical statistics records call after call.
C4_IdenticalRecords ==
    SameCallsReturned => stats[1] = stats[2]

\* C4 as amended: the records agree call after call in every field other than
\* the measured durations time_construction, time_evaporation, time_deposit.
C4_IdenticalRecordsButTimes ==
    SameCallsReturned => WithoutTimes(stats[1][1]) = WithoutTimes(stats[2][1])

\* both engines have returned from their second call, the ants of that cycle
\* having built tours of different lengths, and the measured durations differ
C4_Witness ==
    /\ SameCallsReturned
    /\ obs[1].cycles >= 2
    /\ Cardinality(Range(stats[1][1].all_lengths)) >= 2
    /\ stats[1][1].time_construction # stats[2][1].time_construction

\* C11: an engine is never constructed from fewer than 2 cities: construction
\* fails, so no engine object with n < 2 exists for run_cycle to be called on.
C11_FewCitiesRejected ==
    \A e \in Engines : engine[e].n >= 2

\* m >= 1 and 0 <= p <= 1
ValidConfig(self) == self.m >= 1 /\ FLeq(Zero, self.p) /\ FLeq(self.p, One)

\* C12: an engine whose ant count is <= 0 or whose persistence is outside
\* [0, 1] never gets into a run_cycle call: no call on it raises and none
\* changes its tau.
C12_BadConfigNeverMidRun ==
    \A e \in Engines :
        ~ValidConfig(engine[e]) =>
            /\ frame[e].pc # "raised"
            /\ engine[e].tau = initialize_pheromones(engine[e].n)

\* C13: for an engine with n >= 2 cities, duplicates allowed, every entry of
\* tau is a finite number in every reachable state and no deposit divides Q
\* by a length of 0.
C13_TauAlwaysFinite ==
    \A e \in Engines :
        (engine[e].n >= 2 /\ ValidConfig(engine[e])) =>
            /\ \A i \in Cities(engine[e].n), j \in Cities(engine[e].n) :
                  IsFinite(engine[e].tau[i][j])
            /\ frame[e].pc = "deposit" =>
                  frame[e].lengths[frame[e].k + 1] # Zero

\* C14: for an engine with 2 distinct cities and m >= 1, every tour is [0,1,0]
\* or [1,0,1], every length is 2 * dist(0,1), and best_len_global is
\* 2 * dist(0,1) once a run_cycle call has completed.
C14_TwoCities ==
    \A e \in Engines :
        (engine[e].n = 2 /\ engine[e].coords[1] # engine[e].coords[2]
                         /\ engine[e].m >= 1) =>
            LET twice == FAdd(engine[e].dist[0][1], engine[e].dist[0][1])
            IN /\ \A tour \in KnownTours(e) : tour \in {<<0, 1, 0>>, <<1, 0, 1>>}
               /\ \A x \in Range(frame[e].lengths) \cup obs[e].built : x = twice
               /\ obs[e].cycles >= 1 => engine[e].best_len_global = twice

\* C15: with p = 1 and Q = 0 (n >= 2 cities, m >= 1 ants) tau keeps its
\* initial value in every reachable state: 1 off the diagonal, 0 on it.
C15_TauUnchanged ==
    \A e \in Engines :
        (engine[e].p = One /\ engine[e].Q = Zero /\ engine[e].n >= 2
                           /\ engine[e].m >= 1) =>
            \A i \in Cities(engine[e].n), j \in Cities(engine[e].n) :
                engine[e].tau[i][j] = IF i = j THEN Zero ELSE One

\* eta is 1/dist for the pairs i # j at a positive distance, 0 on the diagonal
\* and for the pairs with identical coordinates, and finite everywhere
VisibilityLaw(coords, dist, eta) ==
    \A i \in Cities(Len(coords)), j \in Cities(Len(coords)) :
        /\ IsFinite(eta[i][j])
        /\ (i # j /\ FLess(Zero, dist[i][j])) => eta[i][j] = FDiv(One, dist[i][j])
        /\ (i = j \/ coords[i + 1] = coords[j + 1]) => eta[i][j] = Zero

\* C16: the visibility matrix of every engine, loop-based or vectorised, and
\* the one the ANT class builds from the same distances, is 1/dist for i # j
\* with dist > 0, and 0 on the diagonal and for coincident cities; no entry
\* is infinite.
C16_VisibilityZeroForCoincident ==
    \A e \in Engines :
        /\ VisibilityLaw(engine[e].coords, engine[e].dist, engine[e].eta)
        /\ VisibilityLaw(engine[e].coords, engine[e].dist,
                         ANT_compute_visibility(engine[e].n, engine[e].dist))

\* an engine with two coincident cities, whose visibility is 0, and a third
\* city at a distance above 1 from them, whose visibility is in (0, 1)
C16_Witness ==
    \E e \in Engines : \E i \in Cities(engine[e].n), j \in Cities(engine[e].n),
                           k \in Cities(engine[e].n) :
        /\ i # j /\ engine[e].coords[i + 1] = engine[e].coords[j + 1]
        /\ engine[e].eta[i][j] = Zero
        /\ FLess(Zero, engine[e].eta[i][k]) /\ FLess(engine[e].eta[i][k], One)
        /\ engine[e].eta[k][k] = Zero

\* C17: for an engine with n >= 2 cities, p in [0, 1] and Q >= 0 (and m >= 1
\* ants), every entry of tau is >= 0 and every diagonal entry is 0 in every
\* reachable state.
C17_TauNonNegativeZeroDiagonal ==
    \A e \in Engines :
        (engine[e].n >= 2 /\ ValidConfig(engine[e]) /\ FLeq(Zero, engine[e].Q)) =>
            \A i \in Cities(engine[e].n), j \in Cities(engine[e].n) :
                /\ FLeq(Zero, engine[e].tau[i][j])
                /\ i = j => engine[e].tau[i][j] = Zero

\* the configuration a row reports
RowConfig(row) ==
    [n |-> row.n, m |-> row.m, cycles |-> row.cycles, alpha |-> row.alpha,
     beta |-> row.beta, p |-> row.p, Q |-> row.Q, seed |-> row.seed]

RowConfigs(rows) == [i \in 1..Len(rows) |-> RowConfig(rows[i])]

\* nothing raises for this configuration: the number of cities is not
\* negative, every run_cycle call has an ant and a city, and there is a cycle
Completes(config) ==
    /\ config.n >= 0
    /\ config.cycles >= 1
    /\ config.m >= 1 /\ config.n >= 1

\* C18: the table of a sweep holds exactly one row per configuration that
\* raised nothing, in the order of the configurations: while the sequential
\* sweep is at position idx, for the configurations before idx; when a sweep
\* has returned, for all of them, every configuration having been run.
C18_FailuresSkipped ==
    /\ (bench.pc = "sweep" /\ bench.mode = "sequential") =>
          RowConfigs(bench.results) =
              SelectSeq(SubSeq(bench.configs, 1, bench.idx - 1), Completes)
    /\ bench.pc = "done" =>
          /\ RowConfigs(bench.results) = SelectSeq(bench.configs, Completes)
          /\ \A c \in DOMAIN bench.configs : bench.job[c].pc \in {"done", "failed"}

\* a sweep has returned one row although a run_cycle call of an earlier
\* configuration had raised
C18_Witness ==
    /\ bench.pc = "done"
    /\ bench.mode = "sequential"
    /\ \E c \in DOMAIN bench.configs, d \in DOMAIN bench.configs :
          /\ c < d
          /\ bench.job[c].pc = "failed" /\ c \in DOMAIN frame /\ frame[c].pc = "raised"
          /\ bench.job[d].pc = "done"
          /\ RowConfigs(bench.results) = <<bench.configs[d]>>

\* C19: the job of a configuration that completed has called run_cycle on its
\* engine exactly `cycles` times, and its row reports the engine's
\* best_len_global, the mean_len_cycle of the last call, and as improvement
\* 100 * (first - best) / first, first the best_len_cycle of the first call
\* (0 when first is 0).
C19_RowOfCompletedRun ==
    \A c \in DOMAIN bench.job :
        bench.job[c].pc = "done" =>
            LET row == bench.job[c].result[1]
                cycles == bench.configs[c].cycles
                first == obs[c].best_lens[1]
                best == engine[c].best_len_global
            IN /\ obs[c].cycles = cycles
               /\ Len(obs[c].best_lens) = cycles
               /\ row.best_len_global = best
               /\ row.mean_len_final = <<obs[c].mean_lens[cycles]>>
               /\ row.improvement_pct =
                     IF FLess(Zero, first)
                     THEN FDiv(FMul(Float(100, 1), FAdd(first, FNeg(best))), first)
                     ELSE Zero

\* a row of a run of more than one cycle whose later cycle improved on the
\* first one with a tour of positive length
C19_Witness ==
    \E c \in DOMAIN bench.job :
        /\ bench.job[c].pc = "done"
        /\ bench.configs[c].cycles >= 2
        /\ FLess(Zero, bench.job[c].result[1].best_len_global)
        /\ FLess(Zero, bench.job[c].result[1].improvement_pct)

\* a row without its two measured durations
WithoutRowTimes(row) ==
    [n |-> row.n, m |-> row.m, cycles |-> row.cycles, alpha |-> row.alpha,
     beta |-> row.beta, p |-> row.p, Q |-> row.Q, seed |-> row.seed,
     best_len_global |-> row.best_len_global,
     mean_len_final |-> row.mean_len_final,
     improvement_pct |-> row.improvement_pct]

\* C20: in the parallel sweep, under every interleaving of the jobs, the
\* engine of a job that has ended is in the state the engine of the same
\* configuration ended in when the sweep was run sequentially (tau, best
\* tour and length, generator), and the table returned has the rows of the
\* sequential table, timing fields aside, in the same order.
C20_ParallelAsSequential ==
    bench.mode = "parallel" =>
        /\ \A c \in DOMAIN bench.job :
              (bench.job[c].pc \in {"done", "failed"} /\ c \in DOMAIN bench.alone) =>
                  engine[c] = bench.alone[c]
        /\ bench.pc = "done" =>
              [i \in 1..Len(bench.results) |-> WithoutRowTimes(bench.results[i])] =
              [i \in 1..Len(bench.sequential[1]) |->
                  WithoutRowTimes(bench.sequential[1][i])]

\* the parallel sweep has returned two rows with different best lengths, one
\* of them with a run time other than in the sequential table
C20_Witness ==
    /\ bench.mode = "parallel"
    /\ bench.pc = "done"
    /\ Len(bench.results) >= 2
    /\ bench.results[1].best_len_global # bench.results[2].best_len_global
    /\ bench.results[1].runtime_sec # bench.sequential[1][1].runtime_sec

\* the engine was constructed as the documentation asks: at least two cities,
\* no two of them at one place, at least one ant, p in [0, 1], alpha, beta
\* and Q positive
ProperlyConstructed(self) ==
    /\ self.n >= 2
    /\ \A i \in 1..self.n, j \in 1..self.n : i # j => self.coords[i] # self.coords[j]
    /\ self.m >= 1
    /\ FLeq(Zero, self.p) /\ FLeq(self.p, One)
    /\ self.alpha > 0 /\ self.beta > 0 /\ FLess(Zero, self.Q)

\* C21: on a properly constructed engine no run_cycle call raises: a call in
\* progress is never at a raise, its construction and deposit loops have an
\* ant to work on, the later steps find the tour and the length of every ant,
\* and every call that has returned gave back a statistics record.
C21_ProperEngineNeverRaises ==
    \A e \in Engines :
        ProperlyConstructed(engine[e]) =>
            /\ frame[e].pc \in {"idle", "construct", "evaporate", "deposit", "update"}
            /\ frame[e].pc \in {"construct", "deposit"} => frame[e].k < engine[e].m
            /\ frame[e].pc \in {"evaporate", "deposit", "update"} =>
                  Len(frame[e].tours) = engine[e].m /\ Len(frame[e].lengths) = engine[e].m
            /\ (frame[e].pc = "idle" /\ obs[e].cycles > 0) => stats[e] # <<>>

\* a properly constructed engine with more than one ant has returned from its
\* last call with a record
C21_Witness ==
    \E e \in Engines :
        /\ ProperlyConstructed(engine[e])
        /\ engine[e].m >= 2
        /\ obs[e].cycles = MaxCycles
        /\ frame[e].pc = "idle"
        /\ stats[e] # <<>>
        /\ IsFinite(stats[e][1].mean_len_cycle)

\* the tours of the current call (of the last call once it has returned), all
\* built from the tau the call started with
CallTours(e) == IF frame[e].pc = "idle" THEN obs[e].last_tours ELSE frame[e].tours

\* the value of the random source that step s of ant x (1-based) of the
\* current call is given: the draws of a call are handed out one per step, in
\* ant order then step order
DrawAt(e, x, s) ==
    LET self == engine[e]
    IN self.rng.seed[((obs[e].pos_start + (x - 1) * (self.n - 1) + (s - 1)) % StreamLen) + 1]

\* the sum of f over the finite set S
RECURSIVE SumOver(_, _)
SumOver(f, S) ==
    IF S = {} THEN Zero
    ELSE LET x == CHOOSE y \in S : TRUE IN FAdd(f[x], SumOver(f, S \ {x}))

\* the score tau[current][j]^alpha * eta[current][j]^beta of every unvisited
\* city j at step s of a tour, tau being the matrix the call started with
StepScores(e, tour, s) ==
    LET self == engine[e]
        current == tour[s]
        visited == {tour[i] : i \in 1..s}
    IN [j \in Cities(self.n) \ visited |->
           FMul(FPow(obs[e].tau_start[current][j], self.alpha),
                FPow(self.eta[current][j], self.beta))]

StepTotal(scores) == SumOver(scores, DOMAIN scores)

\* the share of the total that the cities up to j hold
CumulativeShare(scores, j) ==
    FDiv(SumOver(scores, {i \in DOMAIN scores : i <= j}), StepTotal(scores))

\* the steps of the tours of the current call: <<x, s>> is step s of ant x
CallSteps(e) ==
    {xs \in (1..Len(CallTours(e))) \X (1..(engine[e].n - 1)) :
        Len(CallTours(e)[xs[1]]) = engine[e].n + 1}

\* every step of the current call of e whose scores sum to a positive value
\* appended the lowest-indexed unvisited city whose cumulative share of the
\* scores is at least the draw
RouletteLaw(e) ==
    \A xs \in CallSteps(e) :
        LET tour == CallTours(e)[xs[1]]
            s == xs[2]
            scores == StepScores(e, tour, s)
            r == DrawAt(e, xs[1], s)
            reached == {j \in DOMAIN scores : FLeq(r, CumulativeShare(scores, j))}
        IN (FLess(Zero, StepTotal(scores)) /\ IsFinite(StepTotal(scores))) =>
              /\ tour[s + 1] \in DOMAIN scores
              /\ tour[s + 1] \in reached
              /\ \A j \in reached : tour[s + 1] <= j

\* C22: at a step where the scores of the unvisited cities sum to a positive
\* value, the city appended is unvisited and is the lowest-indexed unvisited
\* city whose cumulative share of the scores is at least the draw, whatever
\* the draw (0 included).
C22_RouletteSelection == \A e \in Engines : RouletteLaw(e)

\* C22 restricted to the loop-based engine, where it holds
C22_LoopRouletteSelection ==
    \A e \in Engines : engine[e].impl = "loop" => RouletteLaw(e)

\* the number of unvisited cities up to city j: the rank of j among them
Rank(scores, j) == Cardinality({i \in DOMAIN scores : i <= j})

\* C23: at a step where the scores of the unvisited cities sum to zero, the
\* city appended is unvisited, and each of the k unvisited cities is chosen
\* on 1/k of the draws: the one of rank i when the draw lies between
\* (i - 1)/k and i/k.
C23_UniformFallback ==
    \A e \in Engines : \A xs \in CallSteps(e) :
        LET tour == CallTours(e)[xs[1]]
            s == xs[2]
            scores == StepScores(e, tour, s)
            k == Cardinality(DOMAIN scores)
            r == DrawAt(e, xs[1], s)
        IN StepTotal(scores) = Zero =>
              /\ tour[s + 1] \in DOMAIN scores
              /\ FLeq(Float(Rank(scores, tour[s + 1]) - 1, k), r)
              /\ FLeq(r, Float(Rank(scores, tour[s + 1]), k))

\* a step with two unvisited cities, both coincident with the current one,
\* at which the draw 0.75 chose the second of them
C23_Witness ==
    \E e \in Engines : \E xs \in CallSteps(e) :
        LET tour == CallTours(e)[xs[1]]
            scores == StepScores(e, tour, xs[2])
        IN /\ StepTotal(scores) = Zero
           /\ Cardinality(DOMAIN scores) = 2
           /\ Rank(scores, tour[xs[2] + 1]) = 2
           /\ DrawAt(e, xs[1], xs[2]) = Float(3, 4)

\* the lowest-indexed ant (1-based) among those whose length is the least of
\* the cycle
FirstShortest(lengths) ==
    CHOOSE x \in 1..Len(lengths) :
        /\ \A y \in 1..Len(lengths) : FLeq(lengths[x], lengths[y])
        /\ \A y \in 1..(x - 1) : FLess(lengths[x], lengths[y])

\* C24: the update step replaces the global best only by a strictly shorter
\* tour: when the least length of the cycle is not below best_len_global,
\* best_len_global and best_tour_global stay as they are; when it is, they
\* become the length and the tour of the lowest-indexed ant that has the least
\* length.
C24_StrictImprovementFirstAnt ==
    [][\A e \in Engines :
          (frame[e].pc = "update" /\ frame'[e].pc = "idle") =>
              LET x == FirstShortest(frame[e].lengths)
              IN IF FLess(frame[e].lengths[x], engine[e].best_len_global)
                 THEN /\ engine'[e].best_len_global = frame[e].lengths[x]
                      /\ engine'[e].best_tour_global = frame[e].tours[x]
                 ELSE /\ engine'[e].best_len_global = engine[e].best_len_global
                      /\ engine'[e].best_tour_global = engine[e].best_tour_global]_vars

\* a later cycle in which two ants tied for the least length with different
\* tours, that length being the global best the engine had before the cycle,
\* whose tour, not the tour of the first of these ants, is the one kept
C24_Witness ==
    \E e \in Engines :
        /\ engine[e].impl = "loop"
        /\ frame[e].pc = "idle" /\ obs[e].cycles >= 2
        /\ stats[e][1].best_len_cycle = obs[e].best_before
        /\ \E x \in 1..engine[e].m, y \in 1..engine[e].m :
              /\ x < y
              /\ x = FirstShortest(stats[e][1].all_lengths)
              /\ stats[e][1].all_lengths[x] = stats[e][1].all_lengths[y]
              /\ obs[e].last_tours[x] # obs[e].last_tours[y]
              /\ obs[e].last_tours[x] # engine[e].best_tour_global

\* C25: the loop-based and the vectorised engine, constructed from the same
\* coordinates, hyperparameters and seed, have equal dist and eta, and after
\* the same number of run_cycle calls the ants of the last call built the same
\* tours in both and tau, best_len_global and best_tour_global are equal.
C25_EnginesAgree ==
    (Engines = PairIds /\ engine[1].impl = "loop" /\ engine[2].impl = "vec") =>
        /\ engine[1].dist = engine[2].dist
        /\ engine[1].eta = engine[2].eta
        /\ SameCallsReturned =>
              /\ obs[1].last_tours = obs[2].last_tours
              /\ engine[1].tau = engine[2].tau
              /\ engine[1].best_len_global = engine[2].best_len_global
              /\ engine[1].best_tour_global = engine[2].best_tour_global

\* C25 for the seeds without the draw 0
C25_EnginesAgreePositiveDraws ==
    (\A i \in 1..StreamLen : engine[1].rng.seed[i] # Zero) => C25_EnginesAgree

\* C26: every tour is complete after n - 1 selection steps (n + 1 entries
\* with the closing one) and each step takes one value of the random source:
\* when k ants of a call have built their tours the generator is k * (n - 1)
\* values past its position at the start of the call, and m * (n - 1) values
\* past it from the end of the construction until the next call.
C26_OneDrawPerStep ==
    \A e \in Engines :
        LET self == engine[e]
        IN (self.n >= 1 /\ self.m >= 1 /\ frame[e].pc # "raised") =>
              /\ \A x \in 1..Len(CallTours(e)) : Len(CallTours(e)[x]) = self.n + 1
              /\ frame[e].pc = "construct" =>
                    /\ Len(frame[e].tours) = frame[e].k
                    /\ self.rng.pos = obs[e].pos_start + frame[e].k * (self.n - 1)
              /\ (frame[e].pc \in {"evaporate", "deposit", "update"}
                    \/ (frame[e].pc = "idle" /\ obs[e].cycles > 0)) =>
                    /\ Len(CallTours(e)) = self.m
                    /\ self.rng.pos = obs[e].pos_start + self.m * (self.n - 1)

\* a second call, of several ants on three cities, has returned, and one of
\* its steps found the scores of the unvisited cities summing to zero
C26_Witness ==
    \E e \in Engines :
        /\ frame[e].pc = "idle" /\ obs[e].cycles >= 2
        /\ engine[e].n >= 3 /\ engine[e].m >= 2
        /\ engine[e].rng.pos = 2 * engine[e].m * (engine[e].n - 1)
        /\ \E xs \in CallSteps(e) :
              StepTotal(StepScores(e, CallTours(e)[xs[1]], xs[2])) = Zero

\* the best-solution pair of e: absent and +inf before the first call has
\* returned, afterwards a valid tour and the sum of dist along it
BestPairOf(e) ==
    IF obs[e].cycles = 0
    THEN engine[e].best_tour_global = <<>> /\ engine[e].best_len_global = Inf
    ELSE /\ IsValidTour(engine[e].best_tour_global, engine[e].n)
         /\ PathLength(engine[e].dist, engine[e].best_tour_global, 1)
               = engine[e].best_len_global

\* a step changes best_tour_global of e only in the update, and only to a
\* tour an ant built in the cycle
BestTourFromCycle(e) ==
    \/ engine'[e].best_tour_global = engine[e].best_tour_global
    \/ /\ frame[e].pc = "update"
       /\ engine'[e].best_tour_global \in Range(frame[e].tours)

\* C27: before the first call has returned best_tour_global is absent and
\* best_len_global is +inf; afterwards best_tour_global is a valid tour over
\* the n cities whose length, the sum of dist over its consecutive pairs, is
\* best_len_global; and the update step only ever installs a tour an ant
\* built in that cycle, so the tour kept was built by some ant in some cycle.
C27_BestPairConsistent ==
    /\ [](\A e \in Engines : BestPairOf(e))
    /\ [][\A e \in Engines : BestTourFromCycle(e)]_vars

\* C27 restricted to the loop-based engine, where it holds
C27_LoopBestPairConsistent ==
    /\ [](\A e \in Engines : engine[e].impl = "loop" => BestPairOf(e))
    /\ [][\A e \in Engines : BestTourFromCycle(e)]_vars

\* at no step of the current call of e at which some unvisited city had a
\* positive score was an unvisited city of score zero appended
NoZeroScoreChoice(e) ==
    \A xs \in CallSteps(e) :
        LET tour == CallTours(e)[xs[1]]
            scores == StepScores(e, tour, xs[2])
        IN (\E j \in DOMAIN scores : FLess(Zero, scores[j])) =>
              (tour[xs[2] + 1] \in DOMAIN scores => scores[tour[xs[2] + 1]] # Zero)

\* C28: at a step where at least one unvisited city has a positive score, a
\* city whose score is zero is never the one appended, whatever the draw (0
\* included).
C28_ZeroScoreNeverSelected == \A e \in Engines : NoZeroScoreChoice(e)

\* C28 for the loop-based engine alone, where it fails as well
C28_LoopZeroScoreNeverSelected ==
    \A e \in Engines : engine[e].impl = "loop" => NoZeroScoreChoice(e)

\* C28 for the steps whose draw is not 0, where it holds
C28_ZeroScoreNeverSelectedPositiveDraw ==
    \A e \in Engines : \A xs \in CallSteps(e) :
        LET tour == CallTours(e)[xs[1]]
            scores == StepScores(e, tour, xs[2])
        IN ((\E j \in DOMAIN scores : FLess(Zero, scores[j]))
              /\ DrawAt(e, xs[1], xs[2]) # Zero) =>
              (tour[xs[2] + 1] \in DOMAIN scores => scores[tour[xs[2] + 1]] # Zero)

\* for an engine with n >= 2, 0 < p <= 1 and Q >= 0: every off-diagonal
\* entry of tau is strictly positive, and the score of an edge between two
\* cities that are not coincident is not zero
TauPositive(self) ==
    (self.n >= 2 /\ FLess(Zero, self.p) /\ FLeq(self.p, One) /\ FLeq(Zero, self.Q)) =>
        \A i \in Cities(self.n), j \in Cities(self.n) :
            i # j =>
                /\ FLess(Zero, self.tau[i][j])
                /\ self.coords[i + 1] # self.coords[j + 1] =>
                      FMul(FPow(self.tau[i][j], self.alpha),
                           FPow(self.eta[i][j], self.beta)) # Zero

\* C29: for an engine with n >= 2, 0 < p <= 1 and Q >= 0, every off-diagonal
\* entry of tau is strictly positive in every reachable state, so an edge
\* between two cities that are not coincident never has score zero.
C29_TauStaysPositive == \A e \in Engines : TauPositive(engine[e])

\* C29 for the engines whose cities are not all at one place, where it holds
C29_TauStaysPositiveDistinct ==
    \A e \in Engines :
        (\E i \in 1..engine[e].n, j \in 1..engine[e].n :
            engine[e].coords[i] # engine[e].coords[j]) => TauPositive(engine[e])

\* the rows a file holds, as text, in their order
StoredRows(file) ==
    LET IsRow(line) == line[1] = "row"
    IN [i \in 1..Len(SelectSeq(file.lines, IsRow)) |-> SelectSeq(file.lines, IsRow)[i][2]]

\* the rows of a table as to_csv writes them
RowsAsText(df) ==
    [i \in 1..Len(df.rows) |-> [n |-> df.rows[i].n, seed |-> to_csv_cell(df.rows[i].seed)]]

\* C30: after append_benchmarks(df, path) on a file that existed, the file
\* holds the rows it held before, in their order, followed by the rows of df,
\* also when load_benchmarks could not parse the file; on a path without a
\* file, the file is created holding the rows of df.
C30_AppendKeepsStoredRows ==
    disk.op = "append" =>
        /\ disk.file.exists
        /\ StoredRows(disk.file) =
              IF disk.before.exists
              THEN StoredRows(disk.before) \o RowsAsText(disk.df[1])
              ELSE RowsAsText(disk.df[1])

\* C30 for the files load_benchmarks can parse and the paths without a file
C30_AppendKeepsParsedRows ==
    (load_benchmarks(disk.before) # <<>> \/ ~disk.before.exists) =>
        C30_AppendKeepsStoredRows

====
